---- MODULE Spec2Model ----
(***************************************************************************)
(* Model of the IMAPViewer launcher (src/launcher/main.cpp).               *)
(*                                                                         *)
(* One run of main(): resolve the launcher's directory, derive the target  *)
(* path, check that it exists, spawn it, wait, forward the exit code.      *)
(* The operating system is the environment: it reports the executable      *)
(* path, answers the existence check, accepts or refuses the spawn, lets   *)
(* the child terminate and lets the user dismiss the modal dialog.         *)
(*                                                                         *)
(* Paths are sequences of one-character strings, so that find_last_of,     *)
(* substr, concatenation and the MAX_PATH buffer act on characters.        *)
(* A DWORD is a pair <<hi, lo>> of 16-bit halves (value hi * 2^16 + lo);   *)
(* an int is a signed 32-bit integer.                                      *)
(*                                                                         *)
(* Modelling assumptions: the Win32 calls on the freshly created handles   *)
(* (WaitForSingleObject, GetExitCodeProcess, CloseHandle) succeed;         *)
(* GetModuleFileNameW succeeds (possibly truncating); the catch handlers   *)
(* themselves do not throw; the file system does not change during a run.  *)
(***************************************************************************)
EXTENDS Integers, Sequences, FiniteSets, TLC

(* ------------------------------ bounds -------------------------------- *)

\* How many characters past the buffer capacity the longest install
\* directory of the model reaches.
MaxOver == 1

(* ------------------------ program constants --------------------------- *)

MAX_PATH == 260

Half == 65536

(* --------------------------- characters ------------------------------- *)

BS == "\\"

Rep(c, n) == [i \in 1..n |-> c]

\* L"\\app\\imapviewer.exe"
TargetSuffix ==
    <<BS, "a", "p", "p", BS, "i", "m", "a", "p", "v", "i", "e", "w", "e", "r",
      ".", "e", "x", "e">>

\* L"\\app"
AppSuffix == <<BS, "a", "p", "p">>

\* L"\""
Quote == <<"\"">>

(* ------------------------ environment inputs -------------------------- *)

\* C:\i\<pad times d>\l.exe : the launcher installed in C:\i\ddd...d
ExePath(pad) ==
    <<"C", ":", BS, "i", BS>> \o Rep("d", pad) \o <<BS, "l", ".", "e", "x", "e">>

\* pad 1: short path; MAX_PATH - 12: the path fills the buffer exactly;
\* MAX_PATH - 7: the file name is cut; from MAX_PATH - 6: the directory
\* itself reaches the end of the buffer.
PadLens ==
    {1, MAX_PATH - 12, MAX_PATH - 7} \cup {MAX_PATH - 6 + k : k \in 0..MaxOver}

ExePaths == {ExePath(pad) : pad \in PadLens}

\* Directory the launcher is started from (the invocation directory).
Cwds == {<<"C", ":", BS, "i">>, <<"C", ":", BS, "w">>}

\* Arguments given to the launcher.
ArgLists == {<<>>, <<"--x">>}

\* Environment of the launcher.
Envs == {<<>>, <<"APPDIR=C:\\w">>}

\* Exit codes a child can terminate with, as <<hi, lo>>.
ExitCodes ==
    {<<0, 0>>, <<0, 1>>, <<0, 42>>, <<0, 259>>, <<32767, 65535>>,
     <<32768, 0>>, <<49152, 5>>, <<65535, 65535>>}

\* GetLastError() values after a failed CreateProcessW.
OsErrors == {2, 5, 193}

\* e.what() of a caught std::exception.
Whats == {"bad allocation", "filesystem error"}

(* ----------------------------- state ---------------------------------- *)

VARIABLES
    pc,             \* position of main()
    osExePath,      \* full path of the running executable, as the OS knows it
    cwd,            \* current working directory of the launcher
    args,           \* launcher arguments
    env,            \* launcher environment
    existing,       \* set of paths that exist in the file system
    launcherDir,    \* main: launcherDir
    targetExe,      \* main: targetExe
    exc,            \* exception in flight: <<>> or <<kind, what>>
    failure,        \* failure conditions that occurred: notfound, spawnfail, fault
    spawnCalls,     \* CreateProcessW calls made, in order
    children,       \* number of child processes created
    childState,     \* "none", "running", "exited"
    childExit,      \* exit code of the terminated child, <<hi, lo>>
    openHandles,    \* handles of pi held by the launcher
    closeLog,       \* CloseHandle calls made, in order
    waited,         \* WaitForSingleObject has returned
    exitCode,       \* LaunchApplication: DWORD exitCode
    dialogs,        \* MessageBoxW calls made, in order
    dialogOpen,     \* a modal dialog is on screen
    stderr,         \* lines written to std::wcerr
    showErrorCalls, \* number of ShowError calls
    mainReturn,     \* value returned by main (meaningful when pc = "done")
    launcherExit    \* exit code of the launcher process, <<hi, lo>>

vars ==
    <<pc, osExePath, cwd, args, env, existing, launcherDir, targetExe, exc,
      failure, spawnCalls, children, childState, childExit, openHandles,
      closeLog, waited, exitCode, dialogs, dialogOpen, stderr,
      showErrorCalls, mainReturn, launcherExit>>

inVars == <<osExePath, cwd, args, env, existing>>

pathVars == <<launcherDir, targetExe>>

childVars ==
    <<spawnCalls, children, childState, childExit, openHandles, closeLog,
      waited, exitCode>>

errVars == <<dialogs, dialogOpen, stderr, showErrorCalls>>

retVars == <<mainReturn, launcherExit>>

(* ------------------------- pure functions ----------------------------- *)

\* GetModuleFileNameW(NULL, buffer, nSize): the path if it fits with its
\* terminating null, otherwise its first nSize - 1 characters.
GetModuleFileNameW(path, nSize) ==
    IF Len(path) < nSize THEN path ELSE SubSeq(path, 1, nSize - 1)

\* std::wstring::find_last_of: 1-based position of the last c, 0 for npos.
FindLastOf(s, c) ==
    LET hits == {i \in 1..Len(s) : s[i] = c}
    IN  IF hits = {} THEN 0 ELSE CHOOSE i \in hits : \A j \in hits : j <= i

GetExecutableDirectory(path) ==
    LET execPath  == GetModuleFileNameW(path, MAX_PATH)
        lastSlash == FindLastOf(execPath, BS)
    IN  IF lastSlash # 0 THEN SubSeq(execPath, 1, lastSlash - 1) ELSE <<".">>

\* launcherDir + L"\\app\\imapviewer.exe"
TargetOf(dir) == dir \o TargetSuffix

\* launcherDir + L"\\app"
AppDirOf(dir) == dir \o AppSuffix

\* L"\"" + executablePath + L"\""
CmdLineOf(executablePath) == Quote \o executablePath \o Quote

\* Fault: the existence check is stubbed out and always answers yes.
FileExists_Always(path) == TRUE

FileExists(path) == path \in existing

\* Fault: a saturating conversion, values above INT_MAX become INT_MAX.
StaticCastInt_Saturating(dw) ==
    IF dw[1] >= Half \div 2 THEN (Half \div 2 - 1) * Half + (Half - 1)
    ELSE dw[1] * Half + dw[2]

\* static_cast<int>(DWORD): the same 32 bits read as a signed integer.
StaticCastInt(dw) ==
    IF dw[1] >= Half \div 2 THEN (dw[1] - Half) * Half + dw[2]
    ELSE dw[1] * Half + dw[2]

\* The int returned by main becomes the process exit code, a DWORD.
ProcessExitCode(i) == <<(i \div Half) % Half, i % Half>>

(* The directory that really contains the executable, and the files that  *)
(* may exist: the target under the real install directory and the target  *)
(* the launcher computes.                                                  *)
InstallDir(path) == SubSeq(path, 1, FindLastOf(path, BS) - 1)

CandidateTargets(path) ==
    {TargetOf(InstallDir(path)), TargetOf(GetExecutableDirectory(path))}

(* ------------------------------ Init ---------------------------------- *)

Init ==
    /\ pc = "resolve"
    /\ osExePath \in ExePaths
    /\ cwd \in Cwds
    /\ args \in ArgLists
    /\ env \in Envs
    /\ existing \in SUBSET CandidateTargets(osExePath)
    /\ launcherDir = <<>>
    /\ targetExe = <<>>
    /\ exc = <<>>
    /\ failure = {}
    /\ spawnCalls = <<>>
    /\ children = 0
    /\ childState = "none"
    /\ childExit = <<0, 0>>
    /\ openHandles = {}
    /\ closeLog = <<>>
    /\ waited = FALSE
    /\ exitCode = <<0, 0>>
    /\ dialogs = <<>>
    /\ dialogOpen = FALSE
    /\ stderr = <<>>
    /\ showErrorCalls = 0
    /\ mainReturn = 0
    /\ launcherExit = <<0, 0>>

(* ----------------------------- helpers -------------------------------- *)

\* ShowError up to the point where MessageBoxW blocks.
ShowError(message) ==
    /\ dialogs' = Append(dialogs,
                         [title |-> "IMAPViewer Launcher Error",
                          text  |-> message])
    /\ dialogOpen' = TRUE
    /\ showErrorCalls' = showErrorCalls + 1
    /\ UNCHANGED stderr
    /\ pc' = "dialog"

\* main returns ret and the process ends.
Finish(ret) ==
    /\ mainReturn' = ret
    /\ launcherExit' = ProcessExitCode(ret)
    /\ pc' = "done"

(* ----------------------------- actions -------------------------------- *)

\* std::wstring launcherDir = GetExecutableDirectory();
ResolveSelfDir ==
    /\ pc = "resolve"
    /\ launcherDir' = GetExecutableDirectory(osExePath)
    /\ pc' = "concat"
    /\ UNCHANGED <<inVars, targetExe, exc, failure, childVars, errVars, retVars>>

\* std::wstring targetExe = launcherDir + L"\\app\\imapviewer.exe";
ComputeTargetPath ==
    /\ pc = "concat"
    /\ targetExe' = TargetOf(launcherDir)
    /\ pc' = "exists"
    /\ UNCHANGED <<inVars, launcherDir, exc, failure, childVars, errVars, retVars>>

\* if (!FileExists(targetExe))
CheckExists ==
    /\ pc = "exists"
    /\ IF FileExists(targetExe)
       THEN pc' = "launch" /\ UNCHANGED failure
       ELSE pc' = "notfound" /\ failure' = failure \cup {"notfound"}
    /\ UNCHANGED <<inVars, pathVars, exc, childVars, errVars, retVars>>

\* errorMsg = ...; ShowError(errorMsg);
ReportNotFound ==
    /\ pc = "notfound"
    /\ ShowError(<<"Could not find the main application at:\n", targetExe,
                   "\n\nPlease ensure the application is properly installed.">>)
    /\ UNCHANGED <<inVars, pathVars, exc, failure, childVars, retVars>>

\* The user dismisses the dialog: MessageBoxW returns, ShowError writes the
\* message to std::wcerr and its caller returns 1.
DismissDialog ==
    /\ pc = "dialog"
    /\ dialogOpen
    /\ dialogOpen' = FALSE
    /\ stderr' = Append(stderr, dialogs[Len(dialogs)].text)
    /\ Finish(1)
    /\ UNCHANGED <<inVars, pathVars, exc, failure, childVars, dialogs,
                   showErrorCalls>>

\* The CreateProcessW call of LaunchApplication(targetExe, appDir).
SpawnCall ==
    [app         |-> targetExe,
     cmdLine     |-> CmdLineOf(targetExe),
     inherit     |-> FALSE,
     flags       |-> 0,
     environment |-> "NULL",
     workingDir  |-> AppDirOf(launcherDir)]

\* CreateProcessW succeeds: the child runs and pi holds its two handles.
SpawnSucceeded ==
    /\ pc = "launch"
    /\ spawnCalls' = Append(spawnCalls, SpawnCall)
    /\ children' = children + 1
    /\ childState' = "running"
    /\ openHandles' = openHandles \cup {"hProcess", "hThread"}
    /\ pc' = "wait"
    /\ UNCHANGED <<inVars, pathVars, exc, failure, childExit, closeLog,
                   waited, exitCode, errVars, retVars>>

\* Fault: a failed CreateProcessW is tried again.
SpawnFailed_Retry ==
    /\ pc = "launch"
    /\ \E error \in OsErrors :
        stderr' = Append(stderr,
                         <<"Failed to launch application. Error code: ", error>>)
    /\ spawnCalls' = Append(spawnCalls, SpawnCall)
    /\ failure' = failure \cup {"spawnfail"}
    /\ pc' = "launch"
    /\ UNCHANGED <<inVars, pathVars, exc, children, childState, childExit,
                   openHandles, closeLog, waited, exitCode, dialogs,
                   dialogOpen, showErrorCalls, retVars>>

\* CreateProcessW fails: the error goes to std::wcerr, return 1.
SpawnFailed ==
    /\ pc = "launch"
    /\ \E error \in OsErrors :
        stderr' = Append(stderr,
                         <<"Failed to launch application. Error code: ", error>>)
    /\ spawnCalls' = Append(spawnCalls, SpawnCall)
    /\ failure' = failure \cup {"spawnfail"}
    /\ Finish(1)
    /\ UNCHANGED <<inVars, pathVars, exc, children, childState, childExit,
                   openHandles, closeLog, waited, exitCode, dialogs,
                   dialogOpen, showErrorCalls>>

\* The child process terminates with some exit code.
ChildExit ==
    /\ childState = "running"
    /\ \E n \in ExitCodes : childExit' = n
    /\ childState' = "exited"
    /\ UNCHANGED <<pc, inVars, pathVars, exc, failure, spawnCalls, children,
                   openHandles, closeLog, waited, exitCode, errVars, retVars>>

\* Fault: the wait has a timeout and may return while the child runs.
WaitForSingleObject_Timeout ==
    /\ pc = "wait"
    /\ waited' = TRUE
    /\ pc' = "getexit"
    /\ UNCHANGED <<inVars, pathVars, exc, failure, spawnCalls, children,
                   childState, childExit, openHandles, closeLog, exitCode,
                   errVars, retVars>>

\* WaitForSingleObject(pi.hProcess, INFINITE) returns.
WaitForSingleObject ==
    /\ pc = "wait"
    /\ childState = "exited"
    /\ waited' = TRUE
    /\ pc' = "getexit"
    /\ UNCHANGED <<inVars, pathVars, exc, failure, spawnCalls, children,
                   childState, childExit, openHandles, closeLog, exitCode,
                   errVars, retVars>>

\* Fault: the exit code is never fetched, exitCode keeps its initial 0.
GetExitCodeProcess_Skipped ==
    /\ pc = "getexit"
    /\ pc' = "close"
    /\ UNCHANGED <<inVars, pathVars, exc, failure, childVars, errVars, retVars>>

\* GetExitCodeProcess(pi.hProcess, &exitCode);
GetExitCodeProcess ==
    /\ pc = "getexit"
    /\ exitCode' = childExit
    /\ pc' = "close"
    /\ UNCHANGED <<inVars, pathVars, exc, failure, spawnCalls, children,
                   childState, childExit, openHandles, closeLog, waited,
                   errVars, retVars>>

\* Fault: only the process handle is closed.
CloseHandles_ProcessOnly ==
    /\ pc = "close"
    /\ closeLog' = closeLog \o <<"hProcess">>
    /\ openHandles' = openHandles \ {"hProcess"}
    /\ pc' = "ret"
    /\ UNCHANGED <<inVars, pathVars, exc, failure, spawnCalls, children,
                   childState, childExit, waited, exitCode, errVars, retVars>>

\* CloseHandle(pi.hProcess); CloseHandle(pi.hThread);
CloseHandles ==
    /\ pc = "close"
    /\ closeLog' = closeLog \o <<"hProcess", "hThread">>
    /\ openHandles' = openHandles \ {"hProcess", "hThread"}
    /\ pc' = "ret"
    /\ UNCHANGED <<inVars, pathVars, exc, failure, spawnCalls, children,
                   childState, childExit, waited, exitCode, errVars, retVars>>

\* Fault: a nonzero exit code of the child is reported as a launch error.
ReturnExitCode_ReportNonZero ==
    /\ pc = "ret"
    /\ IF exitCode # <<0, 0>>
       THEN /\ ShowError(<<"Application failed">>)
            /\ UNCHANGED retVars
       ELSE /\ Finish(StaticCastInt(exitCode))
            /\ UNCHANGED errVars
    /\ UNCHANGED <<inVars, pathVars, exc, failure, childVars>>

\* return static_cast<int>(exitCode); and main returns it.
ReturnExitCode ==
    /\ pc = "ret"
    /\ Finish(StaticCastInt(exitCode))
    /\ UNCHANGED <<inVars, pathVars, exc, failure, childVars, errVars>>

\* Points of the try block at which a C++ exception can be raised: the
\* string constructions and concatenations and fs::exists.
ThrowPoints == {"resolve", "concat", "exists", "notfound", "launch"}

Throw ==
    /\ pc \in ThrowPoints
    /\ \E kind \in {"std", "other"}, what \in Whats : exc' = <<kind, what>>
    /\ failure' = failure \cup {"fault"}
    /\ pc' = "catch"
    /\ UNCHANGED <<inVars, pathVars, childVars, errVars, retVars>>

\* catch (const std::exception& e)
CatchStd ==
    /\ pc = "catch"
    /\ exc[1] = "std"
    /\ ShowError(<<"Unexpected error: ", exc[2]>>)
    /\ exc' = <<>>
    /\ UNCHANGED <<inVars, pathVars, failure, childVars, retVars>>

\* catch (...)
CatchAll ==
    /\ pc = "catch"
    /\ exc[1] # "std"
    /\ ShowError(<<"An unexpected error occurred while launching the application.">>)
    /\ exc' = <<>>
    /\ UNCHANGED <<inVars, pathVars, failure, childVars, retVars>>

Next ==
    \/ ResolveSelfDir
    \/ ComputeTargetPath
    \/ CheckExists
    \/ ReportNotFound
    \/ DismissDialog
    \/ SpawnSucceeded
    \/ SpawnFailed
    \/ ChildExit
    \/ WaitForSingleObject
    \/ GetExitCodeProcess
    \/ CloseHandles
    \/ ReturnExitCode
    \/ Throw
    \/ CatchStd
    \/ CatchAll

Spec == Init /\ [][Next]_vars

\* The launcher's own steps are scheduled until it blocks or ends, and a
\* dialog on screen is eventually dismissed.  The child owes nothing: it
\* may run forever.
LauncherStep ==
    \/ ResolveSelfDir
    \/ ComputeTargetPath
    \/ CheckExists
    \/ ReportNotFound
    \/ SpawnSucceeded
    \/ SpawnFailed
    \/ WaitForSingleObject
    \/ GetExitCodeProcess
    \/ CloseHandles
    \/ ReturnExitCode
    \/ Throw
    \/ CatchStd
    \/ CatchAll

FairSpec == Spec /\ WF_vars(LauncherStep) /\ WF_vars(DismissDialog)

TypeOK ==
    /\ pc \in {"resolve", "concat", "exists", "notfound", "dialog", "launch",
               "wait", "getexit", "close", "ret", "catch", "done"}
    /\ childState \in {"none", "running", "exited"}
    /\ openHandles \subseteq {"hProcess", "hThread"}
    /\ mainReturn \in Int
    /\ launcherExit[1] \in 0..(Half - 1)
    /\ launcherExit[2] \in 0..(Half - 1)

(* ------------------------------ claims -------------------------------- *)

Handles == {"hProcess", "hThread"}

Closes(h) == Cardinality({i \in DOMAIN closeLog : closeLog[i] = h})

\* C1: when the spawn succeeded, the exit code of the launcher process is
\* the exit code N the child terminated with, for every N in 0 .. 2^32 - 1.
C1_ExitCodeForwarding ==
    (pc = "done" /\ children = 1) => launcherExit = childExit

\* A launcher that ended after a child exited with 0xFFFFFFFF (main
\* returned -1).
C1_Witness ==
    /\ pc = "done"
    /\ children = 1
    /\ childExit = <<65535, 65535>>
    /\ mainReturn = -1

\* C2: when the computed target path does not exist, no spawn is ever
\* attempted and the launcher ends with exit code 1 after exactly one
\* ShowError call.
C2_ExistenceGate ==
    (targetExe # <<>> /\ targetExe \notin existing) =>
        /\ spawnCalls = <<>>
        /\ children = 0
        /\ showErrorCalls <= 1
        /\ pc = "done" =>
            /\ mainReturn = 1
            /\ launcherExit = <<0, 1>>
            /\ showErrorCalls = 1

\* A launcher that ended on the not-found path.
C2_Witness ==
    /\ pc = "done"
    /\ targetExe # <<>>
    /\ targetExe \notin existing
    /\ "notfound" \in failure
    /\ showErrorCalls = 1

\* C3: every failure (target not found, spawn failure, unexpected fault)
\* ends with exit code 1 after a modal dialog and an error-stream line
\* carrying the same message; after a failed spawn the dialog carries the
\* OS error code.
C3_EveryFailureDialogAndStderr ==
    (pc = "done" /\ failure # {}) =>
        /\ mainReturn = 1
        /\ dialogs # <<>>
        /\ stderr # <<>>
        /\ \A i \in DOMAIN dialogs :
            \E j \in DOMAIN stderr : stderr[j] = dialogs[i].text
        /\ "spawnfail" \in failure =>
            \E i \in DOMAIN dialogs, e \in OsErrors :
                dialogs[i].text[Len(dialogs[i].text)] = e

\* C4: CreateProcessW is called at most once in a run and at most one
\* child is created, on every path; a failed spawn is not retried.
C4_SingleSpawn ==
    /\ Len(spawnCalls) <= 1
    /\ children <= Len(spawnCalls)

\* A launcher that ended after its single spawn attempt failed.
C4_Witness ==
    /\ pc = "done"
    /\ "spawnfail" \in failure
    /\ Len(spawnCalls) = 1
    /\ children = 0

\* C5: in every terminal state the launcher holds no child handle; after
\* a successful spawn the process handle and the thread handle are each
\* closed exactly once, and only after the wait has returned.
C5_ResourceCleanup ==
    /\ pc = "done" => openHandles = {}
    /\ closeLog # <<>> => waited
    /\ \A h \in Handles : Closes(h) <= 1
    /\ \A h \in Handles : Closes(h) = 1 => h \notin openHandles
    /\ (pc = "done" /\ children = 1) => \A h \in Handles : Closes(h) = 1
    /\ children = 0 => (openHandles = {} /\ closeLog = <<>>)

\* A launcher that ended after closing both handles of its child.
C5_Witness ==
    /\ pc = "done"
    /\ children = 1
    /\ closeLog = <<"hProcess", "hThread">>
    /\ openHandles = {}

\* C6: once a child is spawned the launcher is waiting for it, or has
\* waited, found it terminated and taken its exit status; it never ends
\* or leaves the wait while the child runs, and it ends without reporting
\* a failure.
C6_NoPartialLaunch ==
    children >= 1 =>
        /\ pc \in {"wait", "getexit", "close", "ret", "done"}
        /\ pc # "wait" => (childState = "exited" /\ waited)
        /\ pc \in {"close", "ret", "done"} => exitCode = childExit
        /\ failure = {}

\* A launcher about to return the status of its terminated child.
C6_Witness ==
    /\ pc = "ret"
    /\ children = 1
    /\ childState = "exited"
    /\ exitCode = <<0, 42>>

\* C7: the target path checked and spawned is the launcher's install
\* directory (the directory that contains the running executable) followed
\* by \app\imapviewer.exe, whatever the working directory, the environment
\* and the arguments.
C7_PathDerivation ==
    /\ targetExe # <<>> => targetExe = InstallDir(osExePath) \o TargetSuffix
    /\ \A i \in DOMAIN spawnCalls :
        spawnCalls[i].app = InstallDir(osExePath) \o TargetSuffix

\* C8: every spawn passes the install directory followed by \app as the
\* working directory, the quoted target path alone as the command line,
\* and no environment block.
C8_WorkingDirAndInvocation ==
    \A i \in DOMAIN spawnCalls :
        /\ spawnCalls[i].workingDir = InstallDir(osExePath) \o AppSuffix
        /\ spawnCalls[i].cmdLine =
               Quote \o InstallDir(osExePath) \o TargetSuffix \o Quote
        /\ spawnCalls[i].environment = "NULL"

\* C9: ShowError is called at most once in a run, never in a run whose
\* child was spawned, whatever the child's exit code, and only after the
\* target was not found, the spawn failed or a fault was caught.
C9_ErrorReportConfined ==
    /\ showErrorCalls <= 1
    /\ Len(dialogs) = showErrorCalls
    /\ children >= 1 => showErrorCalls = 0
    /\ showErrorCalls >= 1 =>
        failure \cap {"notfound", "spawnfail", "fault"} # {}

\* A launcher that ended silently although its child exited with code 1.
C9_Witness ==
    /\ pc = "done"
    /\ children = 1
    /\ childExit = <<0, 1>>
    /\ launcherExit = <<0, 1>>
    /\ showErrorCalls = 0

\* C10: after a successful spawn the launcher stays in the wait as long as
\* the child runs, it has ended only if the child has terminated, and once
\* the child has terminated the launcher eventually ends.
C10_TerminationTiedToChild ==
    /\ [][(pc = "wait" /\ childState' = "running") => pc' = "wait"]_vars
    /\ []((children >= 1 /\ pc = "done") => childState = "exited")
    /\ (children >= 1 /\ childState = "exited") ~> (pc = "done")

\* A launcher that ended after the termination of the child it waited for.
C10_Witness ==
    /\ pc = "done"
    /\ waited
    /\ childState = "exited"
    /\ failure = {}

====
